---- MODULE Spec2Model ----
(***************************************************************************)
(* A model of the error_handler package (seviper): the Catcher of core.py, *)
(* the Callback of callback.py and the wrappers of decorator.py.           *)
(*                                                                         *)
(* Python values are strings: call arguments "a1", "a2", ..., the value a  *)
(* unit of work returns "v1", the sentinels "ERRORED" / "UNSET" / "None",  *)
(* and references to exception objects "e1", "e2", ...  Exception objects  *)
(* live in `heap` (their handled-mark and their __cause__).                *)
(***************************************************************************)
EXTENDS Integers, Sequences, FiniteSets, TLC

VARIABLES cat, deco, heap, log, outcome, op, pc

vars == <<cat, deco, heap, log, outcome, op, pc>>

(***************************************************************************)
(* Bounds of the model.                                                    *)
(***************************************************************************)
\* the longest positional argument list a unit of work is called with
MaxArgs == 2
\* how deep units of work nest Catcher executions
MaxDepth == 1
\* the largest max_retries given to retry_on_error
\* the longest source that stream.map is run over
MaxSource == 2

MaxRetries == 2
\* the number of positional injections one Callback holds
MaxInject == 2

(***************************************************************************)
(* Names.                                                                  *)
(***************************************************************************)
ArgName == <<"a1", "a2", "a3", "a4">>
OtherArgName == <<"b1", "b2", "b3", "b4">>
ParamName == <<"x", "y", "z", "u">>
ErrName == <<"e1", "e2", "e3", "e4", "e5", "e6", "e7", "e8", "e9", "e10",
             "e11", "e12", "e13", "e14", "e15", "e16", "e17", "e18">>

None == "None"
ERRORED == "ERRORED"
UNSET == "UNSET"

\* the positional arguments (a1, ..., an)
ArgList(n) == [i \in 1..n |-> ArgName[i]]

\* inspect.signature of a Python function called with n positional arguments
ParamList(n) == [i \in 1..n |-> ParamName[i]]

OUTER == 1
INNER == 2

(***************************************************************************)
(* Exception objects.                                                      *)
(***************************************************************************)
ErrIdx(e) == CHOOSE i \in 1..Len(ErrName) : ErrName[i] = e

\* the exception object a reference names
Exc(w, e) == w.heap[ErrIdx(e)]

\* a new exception object of the given type, with no handled-mark and no cause
NewExc(kind) == [kind |-> kind, marks |-> <<>>, cause |-> None]

\* results of calls: a returned value (t = "val"), a PositiveResult
\* (t = "Pos"), a NegativeResult (t = "Neg") or a raised exception (k = "raise")
Ret(w, t, result, error) ==
    [w |-> w, k |-> "ret", t |-> t, result |-> result, error |-> error]

Raise(w, e) ==
    [w |-> w, k |-> "raise", t |-> "exc", result |-> None, error |-> e]

\* raise a newly constructed exception of the given type
RaiseNew(w, kind) ==
    LET w2 == [w EXCEPT !.heap = Append(@, NewExc(kind))]
    IN Raise(w2, ErrName[Len(w2.heap)])

\* raise kind() from cause(): two new exceptions, the second one raised
\* with the first one as its __cause__
RaiseNewFrom(w, kind, cause) ==
    LET r == RaiseNew(RaiseNew(w, cause).w, kind)
    IN [r EXCEPT !.w.heap[Len(r.w.heap)].cause = ErrName[Len(r.w.heap) - 1]]

PositiveResult(w, result) == Ret(w, "Pos", result, None)

NegativeResult(w, result, error) == Ret(w, "Neg", result, error)

\* one entry of the trace of calls: a unit of work that finished, or one
\* dispatch of an observer (ran: the observer's function was called), with
\* the value it returned or the exception it raised (and the handled-mark
\* that exception had when the unit of work raised it)
Event(ex, c, slot, args, ran, raised, res, err, marks) ==
    [exec |-> ex, cat |-> c, slot |-> slot, args |-> args, kwargs |-> {},
     ran |-> ran, raised |-> raised, res |-> res, err |-> err, marks |-> marks]

Logged(w, ev) == [w EXCEPT !.log = Append(@, ev)]

(***************************************************************************)
(* Callback (callback.py).                                                 *)
(***************************************************************************)
\* a user-supplied observer function: the number of positional parameters
\* it declares (VarArgs for *args) and what it does when called
VarArgs == 0 - 1

Fn(arity, beh) == [none |-> FALSE, arity |-> arity, beh |-> beh]

\* None in the place of an observer function
NoneFn == [none |-> TRUE, arity |-> VarArgs, beh |-> "ret"]

\* Callback.__init__: _args_to_inject is a dict from index to value, kept
\* here as the sequence of its <<index, value>> items in the order the dict
\* iterates them; _kwargs_to_inject is a dict from name to value, kept as
\* the set of its <<name, value>> items (None counts as empty)
Callback(callback, expected_signature) ==
    [callback |-> callback, expected_signature |-> expected_signature,
     args_to_inject |-> <<>>, kwargs_to_inject |-> {}]

\* a slot of a Catcher: None, or a Callback
NoSlot == [reg |-> FALSE, cb |-> Callback(NoneFn, <<>>)]

Slot(cb) == [reg |-> TRUE, cb |-> cb]

\* inspect.Signature rejects two parameters of the same name
HasDuplicate(params) ==
    \E i, j \in 1..Len(params) : i < j /\ params[i] = params[j]

\* Signature.bind of the observer function's own signature
Binds(fn, a) == fn.arity = VarArgs \/ fn.arity = Len(a)

\* Callback.from_callable: the expected signature is add_params followed by
\* the parameters of signature_from_callable
Callback_from_callable(callback, sig, add_params) ==
    Callback(callback, add_params \o sig)

ErrorCallback_from_callable(callback, sig) ==
    Callback_from_callable(callback, sig, <<"error">>)

SuccessCallback_from_callable(callback, sig) ==
    LET inst == Callback_from_callable(callback, sig, <<>>)
    IN [inst EXCEPT !.expected_signature = <<"result">> \o @]

\* dict.update with one item: the value of a key the dict has is replaced
\* where it stands, a new key goes to the end
DictUpdate(items, index, value) ==
    IF \E j \in 1..Len(items) : items[j][1] = index
    THEN [j \in 1..Len(items) |->
            IF items[j][1] = index THEN <<index, value>> ELSE items[j]]
    ELSE Append(items, <<index, value>>)

\* dict.update for keyword items
KwargsUpdate(kwargs, injected) ==
    {p \in kwargs : \A q \in injected : q[1] # p[1]} \cup injected

\* Callback.inject_parameters(*args, **kwargs), with at most one
\* <<index, value>> item in args
inject_parameters(cb, args, kwargs) ==
    [cb EXCEPT !.args_to_inject = IF args = <<>> THEN @
                                  ELSE DictUpdate(@, args[1][1], args[1][2]),
               !.kwargs_to_inject = KwargsUpdate(@, kwargs)]

\* list.insert(index, value) for index >= 0: an index past the end appends
ListInsert(a, index, value) ==
    IF index >= Len(a) THEN Append(a, value)
    ELSE SubSeq(a, 1, index) \o <<value>> \o SubSeq(a, index + 1, Len(a))

\* Callback.__call__: for index, value in self._args_to_inject.items():
\* args.insert(index, value)
RECURSIVE InsertInjected(_, _)
InsertInjected(items, a) ==
    IF items = <<>> THEN a
    ELSE InsertInjected(Tail(items), ListInsert(a, items[1][1], items[1][2]))

\* Callback.__call__ of the Callback in `slot` of Catcher c with the
\* positional arguments a0, in execution ex (a: the arguments after the
\* injected ones were inserted)
CallCallback(w, ex, c, slot, a0) ==
    LET fn == w.cat[c][slot].cb.callback
        a == InsertInjected(w.cat[c][slot].cb.args_to_inject, a0)
        failed(kind) ==
            LET r == RaiseNew(w, kind)
            IN [r EXCEPT !.w = Logged(r.w, Event(ex, c, slot, a, FALSE, TRUE,
                                                 None, r.error, <<>>))]
    IN IF fn.none
       THEN \* inspect.signature(None) raises TypeError, and building the
            \* message reads None.__name__
            failed("AttributeError")
       ELSE IF ~Binds(fn, a)
       THEN failed("TypeError")
       ELSE IF fn.beh = "raise"
       THEN LET r == RaiseNew(w, "ObserverError")
            IN [r EXCEPT !.w = Logged(r.w, Event(ex, c, slot, a, TRUE, TRUE,
                                                 None, r.error, <<>>))]
       ELSE IF fn.beh = "raisefrom"
       THEN \* raise ObserverError() from PriorCause()
            LET r == RaiseNew(RaiseNew(w, "PriorCause").w, "ObserverError")
                e2 == [r.w EXCEPT !.heap[Len(r.w.heap)].cause =
                                      ErrName[Len(r.w.heap) - 1]]
            IN [r EXCEPT !.w = Logged(e2, Event(ex, c, slot, a, TRUE, TRUE,
                                                None, r.error, <<>>))]
       ELSE IF fn.beh = "reraise"
       THEN Raise(Logged(w, Event(ex, c, slot, a, TRUE, TRUE, None, a[1], <<>>)),
                  a[1])
       ELSE IF fn.beh = "raisecause"
       THEN \* raise error.__cause__  (raise None is a TypeError)
            IF Exc(w, a[1]).cause = None
            THEN LET r == RaiseNew(w, "TypeError")
                 IN [r EXCEPT !.w = Logged(r.w, Event(ex, c, slot, a, TRUE, TRUE,
                                                      None, r.error, <<>>))]
            ELSE Raise(Logged(w, Event(ex, c, slot, a, TRUE, TRUE, None,
                                       Exc(w, a[1]).cause, <<>>)),
                       Exc(w, a[1]).cause)
       ELSE Ret(Logged(w, Event(ex, c, slot, a, TRUE, FALSE, None, None, <<>>)),
                "val", None, None)

(***************************************************************************)
(* Catcher (core.py).                                                      *)
(***************************************************************************)
Catcher(on_success, on_error, on_finalize, on_error_return_always, suppress_recalling_on_error) ==
    [on_success |-> on_success, on_error |-> on_error,
     on_finalize |-> on_finalize,
     on_error_return_always |-> on_error_return_always,
     suppress_recalling_on_error |-> suppress_recalling_on_error]

\* Catcher.__init__ wraps a plain callable as Callback(f, Signature())
PlainSlot(present, fn) ==
    IF present THEN Slot(Callback(fn, <<>>)) ELSE NoSlot

SetExpected(w, c, slot, params) ==
    [w EXCEPT !.cat[c][slot].cb.expected_signature = params]

_auto_set_expected_signature_of_error_callback(w, c, hasBase, base) ==
    IF w.cat[c].on_error.reg
    THEN LET b == IF hasBase THEN base
                  ELSE w.cat[c].on_error.cb.expected_signature
             params == <<"error">> \o b
         IN IF HasDuplicate(params) THEN RaiseNew(w, "ValueError")
            ELSE Ret(SetExpected(w, c, "on_error", params), "val", None, None)
    ELSE Ret(w, "val", None, None)

_auto_set_expected_signature_of_finalize_callback(w, c, hasBase, base) ==
    IF w.cat[c].on_finalize.reg /\ hasBase
    THEN Ret(SetExpected(w, c, "on_finalize", base), "val", None, None)
    ELSE Ret(w, "val", None, None)

_auto_set_expected_signature_of_success_callback(w, c, hasBase, base, provide) ==
    IF w.cat[c].on_success.reg
    THEN LET b == IF hasBase THEN base
                  ELSE w.cat[c].on_success.cb.expected_signature
             params == IF provide THEN <<"result">> \o b ELSE b
         IN IF HasDuplicate(params) THEN RaiseNew(w, "ValueError")
            ELSE Ret(SetExpected(w, c, "on_success", params), "val", None, None)
    ELSE Ret(w, "val", None, None)

\* mark_exception with a slip: the list is made anew at every call
mark_exception_Anew(w, c, error) ==
    [w EXCEPT !.heap[ErrIdx(error)].marks = <<c>>]

mark_exception(w, c, error) ==
    [w EXCEPT !.heap[ErrIdx(error)].marks = Append(@, c)]

\* _ensure_exception_in_cause_propagation with a slip: the cause is set on
\* error_base itself, whatever cause it has
_ensure_exception_in_cause_propagation_Overwrite(w, error_base, error_cause) ==
    IF error_base = error_cause THEN w
    ELSE [w EXCEPT !.heap[ErrIdx(error_base)].cause = error_cause]

RECURSIVE _ensure_exception_in_cause_propagation(_, _, _)
_ensure_exception_in_cause_propagation(w, error_base, error_cause) ==
    IF error_base = error_cause THEN w
    ELSE IF Exc(w, error_base).cause = None
    THEN [w EXCEPT !.heap[ErrIdx(error_base)].cause = error_cause]
    ELSE _ensure_exception_in_cause_propagation(w, Exc(w, error_base).cause,
                                                error_cause)

handle_finalize_case(w, ex, c, args) ==
    IF w.cat[c].on_finalize.reg
    THEN CallCallback(w, ex, c, "on_finalize", args)
    ELSE Ret(w, "val", None, None)

\* handle_error_case with a slip: the finalize observer is dispatched from
\* the error handling, ahead of the error observer
handle_error_case_FinalizeFirst(w, ex, c, error, args) ==
    LET caught_before == Exc(w, error).marks # <<>>
        w1 == handle_finalize_case(mark_exception(w, c, error), ex, c, args).w
    IN IF w1.cat[c].on_error.reg
          /\ ~(caught_before /\ w1.cat[c].suppress_recalling_on_error)
       THEN LET r == CallCallback(w1, ex, c, "on_error", <<error>> \o args)
            IN IF r.k = "raise"
               THEN Raise(_ensure_exception_in_cause_propagation(
                              r.w, r.error, error), r.error)
               ELSE NegativeResult(r.w, r.w.cat[c].on_error_return_always,
                                   error)
       ELSE NegativeResult(w1, w1.cat[c].on_error_return_always, error)

\* handle_error_case with a slip: the error is re-raised when no error
\* observer is called
handle_error_case_Reraise(w, ex, c, error, args) ==
    LET caught_before == Exc(w, error).marks # <<>>
        w1 == mark_exception(w, c, error)
    IN IF w1.cat[c].on_error.reg
          /\ ~(caught_before /\ w1.cat[c].suppress_recalling_on_error)
       THEN LET r == CallCallback(w1, ex, c, "on_error", <<error>> \o args)
            IN IF r.k = "raise"
               THEN Raise(_ensure_exception_in_cause_propagation(
                              r.w, r.error, error), r.error)
               ELSE NegativeResult(r.w, r.w.cat[c].on_error_return_always,
                                   error)
       ELSE Raise(w1, error)

\* handle_error_case with a slip: suppress_recalling_on_error is not consulted
handle_error_case_NoSuppress(w, ex, c, error, args) ==
    LET w1 == mark_exception(w, c, error)
    IN IF w1.cat[c].on_error.reg
       THEN LET r == CallCallback(w1, ex, c, "on_error", <<error>> \o args)
            IN IF r.k = "raise"
               THEN Raise(_ensure_exception_in_cause_propagation(
                              r.w, r.error, error), r.error)
               ELSE NegativeResult(r.w, r.w.cat[c].on_error_return_always,
                                   error)
       ELSE NegativeResult(w1, w1.cat[c].on_error_return_always, error)

handle_error_case(w, ex, c, error, args) ==
    LET caught_before == Exc(w, error).marks # <<>>
        w1 == mark_exception(w, c, error)
    IN IF w1.cat[c].on_error.reg
          /\ ~(caught_before /\ w1.cat[c].suppress_recalling_on_error)
       THEN LET r == CallCallback(w1, ex, c, "on_error", <<error>> \o args)
            IN IF r.k = "raise"
               THEN Raise(_ensure_exception_in_cause_propagation(
                              r.w, r.error, error), r.error)
               ELSE NegativeResult(r.w, r.w.cat[c].on_error_return_always,
                                   error)
       ELSE NegativeResult(w1, w1.cat[c].on_error_return_always, error)

handle_success_case(w, ex, c, result, args) ==
    IF w.cat[c].on_success.reg
    THEN LET r == CallCallback(w, ex, c, "on_success", <<result>> \o args)
         IN IF r.k = "raise" THEN r ELSE PositiveResult(r.w, result)
    ELSE PositiveResult(w, result)

(***************************************************************************)
(* Units of work.  A unit of work returns "v1", raises a new ValueError,   *)
(* or is a Python function that runs the INNER Catcher on another unit     *)
(* with its own arguments and returns the value of the result.  hasSig is  *)
(* FALSE for a callable inspect.signature has no signature for (a builtin  *)
(* such as max or int).                                                    *)
(***************************************************************************)
Unit(k, hasSig, sub) == [k |-> k, hasSig |-> hasSig, sub |-> sub]

BaseUnits == {Unit(k, hasSig, <<>>) : k \in {"ret", "raise"},
                                      hasSig \in BOOLEAN}

\* the units of work that are Python functions (def) and nest at most
\* `depth` Catcher executions
RECURSIVE DefUnits(_)
DefUnits(depth) ==
    {u \in BaseUnits : u.hasSig}
    \cup IF depth = 0 THEN {}
         ELSE {Unit("nested", TRUE, <<u>>) : u \in DefUnits(depth - 1)}

\* the last one is a unit of work that raises an error from another one:
\* raise ValueError() from KeyError()
Units ==
    BaseUnits \cup DefUnits(MaxDepth) \cup {Unit("raisefrom", TRUE, <<>>)}

\* inspect.signature(callable_to_secure)
InspectSignature(w, u) ==
    IF u.hasSig THEN Ret(w, "val", None, None) ELSE RaiseNew(w, "ValueError")

\* the call that one execution of a Catcher secures.  hasBase: the call has
\* a callable_to_secure, whose signature the auto-set steps are given and
\* whose arguments the observers are given; ctx: the body of secure_context
Call(ex, c, u, args, auto, hasBase, ctx) ==
    [ex |-> ex, c |-> c, u |-> u, auto |-> auto, hasBase |-> hasBase,
     ctx |-> ctx, base |-> ParamList(Len(args)),
     args |-> IF hasBase THEN args ELSE <<>>]

\* inspect.signature(callable_to_secure), where the call evaluates it
Inspect(w, call) ==
    IF call.auto /\ call.hasBase THEN InspectSignature(w, call.u)
    ELSE Ret(w, "val", None, None)

\* try: ... handle_success_case(result, *args)  (t2: the auto-set is done)
TryDispatch(t2, result, call) ==
    IF t2.k = "raise" THEN t2
    ELSE IF ~call.ctx
    THEN handle_success_case(t2.w, call.ex, call.c, result, call.args)
    ELSE IF t2.w.cat[call.c].on_success.reg
    THEN CallCallback(t2.w, call.ex, call.c, "on_success", <<>>)
    ELSE t2

\* try: ... _auto_set_expected_signature_of_success_callback  (t1: the
\* signature is inspected)
TryAutoSet(t1, result, call) ==
    IF t1.k = "raise" THEN t1
    ELSE TryDispatch(
             IF call.auto
             THEN _auto_set_expected_signature_of_success_callback(
                      t1.w, call.c, call.hasBase, call.base, ~call.ctx)
             ELSE t1,
             result, call)

\* try:  (r0: the unit of work has finished)
TryBlock(r0, call) ==
    IF r0.k = "raise" THEN r0
    ELSE TryAutoSet(Inspect(r0.w, call), r0.result, call)

\* a variant of the except block that raises the error of a with-block again
\* after it was handled
ExceptDispatch_Reraise(x2, error, call) ==
    IF x2.k = "raise" THEN x2
    ELSE IF call.ctx
    THEN Raise(handle_error_case(x2.w, call.ex, call.c, error, call.args).w,
               error)
    ELSE handle_error_case(x2.w, call.ex, call.c, error, call.args)

\* except: ... handle_error_case(error, *args)
ExceptDispatch(x2, error, call) ==
    IF x2.k = "raise" THEN x2
    ELSE handle_error_case(x2.w, call.ex, call.c, error, call.args)

\* except: ... _auto_set_expected_signature_of_error_callback
ExceptAutoSet(x1, error, call) ==
    IF x1.k = "raise" THEN x1
    ELSE ExceptDispatch(
             IF call.auto
             THEN _auto_set_expected_signature_of_error_callback(
                      x1.w, call.c, call.hasBase, call.base)
             ELSE x1,
             error, call)

\* except Exception as error:  (t3: the try block has finished)
ExceptBlock(t3, call) ==
    IF t3.k = "ret" THEN t3
    ELSE ExceptAutoSet(Inspect(t3.w, call), t3.error, call)

\* finally: ... handle_finalize_case(*args)
FinallyDispatch(f2, call) ==
    IF f2.k = "raise" THEN f2
    ELSE handle_finalize_case(f2.w, call.ex, call.c, call.args)

\* finally: ... _auto_set_expected_signature_of_finalize_callback
FinallyAutoSet(f1, call) ==
    IF f1.k = "raise" \/ ~call.auto THEN f1
    ELSE _auto_set_expected_signature_of_finalize_callback(
             f1.w, call.c, call.hasBase, call.base)

\* what leaves the try statement: the error of the finally block, else the
\* error or the result of the blocks before it (x3)
Leave(x3, f3, call) ==
    IF f3.k = "raise" THEN f3
    ELSE IF x3.k = "raise" THEN Raise(f3.w, x3.error)
    ELSE IF call.ctx THEN Ret(f3.w, "val", None, None)
    ELSE [x3 EXCEPT !.w = f3.w]

\* finally:  (x3: the try and except blocks have finished)
FinallyBlock(x3, call) ==
    Leave(x3, FinallyDispatch(FinallyAutoSet(Inspect(x3.w, call), call), call),
          call)

RECURSIVE RunUnit(_, _, _, _, _), Secure(_, _, _, _, _, _, _)

\* the try/except/finally of secure_call, secure_await, secure_call_coroutine
\* and secure_context
Secure(w0, c, u, args, auto, hasBase, ctx) ==
    LET call == Call(w0.nexec + 1, c, u, args, auto, hasBase, ctx)
    IN FinallyBlock(
           ExceptBlock(
               TryBlock(RunUnit([w0 EXCEPT !.nexec = @ + 1], w0.nexec + 1, c,
                                u, args),
                        call),
               call),
           call)

secure_call(w, c, u, args, auto) == Secure(w, c, u, args, auto, TRUE, FALSE)

secure_call_coroutine(w, c, u, args, auto) ==
    Secure(w, c, u, args, auto, TRUE, FALSE)

\* the result of the Catcher that a unit of work ran, as the unit returns it
NestedResult(n) ==
    IF n.k = "raise" THEN n ELSE Ret(n.w, "val", n.result, None)

\* the trace entry of a unit of work that finished with r
LoggedUnit(r, ex, c, args) ==
    [r EXCEPT !.w = Logged(r.w,
         Event(ex, c, "unit", args, TRUE, r.k = "raise", r.result, r.error,
               IF r.k = "raise" THEN Exc(r.w, r.error).marks ELSE <<>>))]

RunUnit(w, ex, c, u, args) ==
    LoggedUnit(IF u.k = "ret" THEN Ret(w, "val", "v1", None)
               ELSE IF u.k = "echo" THEN Ret(w, "val", args[1], None)
               ELSE IF u.k = "raise" THEN RaiseNew(w, "ValueError")
               ELSE IF u.k = "raisefrom" THEN RaiseNewFrom(w, "ValueError", "KeyError")
               ELSE NestedResult(secure_call(w, INNER, u.sub[1], args, TRUE)),
               ex, c, args)

secure_await(w, c, u, args, auto) == Secure(w, c, u, args, auto, FALSE, FALSE)

secure_context(w, c, u, auto) == Secure(w, c, u, <<>>, auto, FALSE, TRUE)

(***************************************************************************)
(* CallbackSummary (result.py) and the decorator (decorator.py).           *)
(***************************************************************************)
\* the CallbackResultType of a slot in execution ex
CallbackResultType(w, ex, slot) ==
    LET evs == {i \in 1..Len(w.log) : w.log[i].exec = ex /\ w.log[i].slot = slot}
    IN IF evs = {} THEN "skipped"
       ELSE IF \E i \in evs : w.log[i].raised THEN "error"
       ELSE "success"

\* the return value that the summary records for a slot in execution ex
ReturnValue(w, ex, slot) ==
    LET evs == {i \in 1..Len(w.log) :
                   /\ w.log[i].exec = ex /\ w.log[i].slot = slot
                   /\ w.log[i].ran /\ ~w.log[i].raised}
    IN IF evs = {} THEN UNSET ELSE w.log[CHOOSE i \in evs : TRUE].res

\* Catcher.handle_result_and_call_callbacks: the CallbackSummary of the
\* execution that produced the result
handle_result_and_call_callbacks(w, ex) ==
    [exec |-> ex,
     callback_result_types |->
        [success |-> CallbackResultType(w, ex, "on_success"),
         error |-> CallbackResultType(w, ex, "on_error"),
         finalize |-> CallbackResultType(w, ex, "on_finalize")],
     callback_return_values |->
        [success |-> ReturnValue(w, ex, "on_success"),
         error |-> ReturnValue(w, ex, "on_error"),
         finalize |-> ReturnValue(w, ex, "on_finalize")]]

\* callback_summary = catcher.handle_result_and_call_callbacks(result, ...)
Summarised(w, ex) ==
    [w EXCEPT !.summaries = Append(@, handle_result_and_call_callbacks(w, ex))]

\* the Catcher that decorator(...) builds for a function of n parameters;
\* an observer that was not given is None
decorator(on_success, on_error, on_finalize, on_error_return_always, suppress_recalling_on_error, n) ==
    Catcher(Slot(SuccessCallback_from_callable(on_success, ParamList(n))),
            Slot(ErrorCallback_from_callable(on_error, ParamList(n))),
            Slot(Callback_from_callable(on_finalize, ParamList(n), <<>>)),
            on_error_return_always, suppress_recalling_on_error)

\* what the wrappers do with the result of the Catcher
WrapperReturn(r, ex) ==
    IF r.k = "raise" THEN r
    ELSE IF r.result = UNSET
    THEN RaiseNew(Summarised(r.w, ex), "AssertionError")
    ELSE Ret(Summarised(r.w, ex), "val", r.result, None)

\* wrapper of a decorated function (def)
wrapper(w, c, u, args) ==
    WrapperReturn(secure_call(w, c, u, args, TRUE), w.nexec + 1)

\* wrapper of a decorated coroutine function (async def)
async_wrapper(w, c, u, args) ==
    WrapperReturn(secure_await(w, c, u, args, TRUE), w.nexec + 1)

(***************************************************************************)
(* stream.map (stream.py): aiostream's map of the secured function over    *)
(* the source, followed by a filter that drops ERRORED.  func.sub[i] is    *)
(* what the function does with the i-th element of the source; the         *)
(* function takes one parameter and is a def, which aiostream calls for    *)
(* one element after the other.                                            *)
(***************************************************************************)
\* aiostream.stream.filter.raw(next_source, lambda result: result is not ERRORED)
StreamFilter(results) == SelectSeq(results, LAMBDA result : result # ERRORED)

\* one more element went through secured_func with r: an error ends the
\* stream, a result is passed on
RECURSIVE MapFrom(_, _, _, _)
MapNext(r, func, i, results) ==
    IF r.k = "raise" THEN r
    ELSE MapFrom(r.w, func, i + 1, Append(results, r.result))

\* aiostream.stream.map.raw(source, secured_func) from element i on
MapFrom(w, func, i, results) ==
    IF i > Len(func.sub) THEN Ret(w, "val", StreamFilter(results), None)
    ELSE MapNext(wrapper(w, OUTER, func.sub[i], <<ArgName[i]>>), func, i, results)

\* map(source, func, on_success=..., on_error=..., on_finalize=...,
\* suppress_recalling_on_error=...), wrap_secured_function left False.
\* secured: func has a __catcher__ (the OUTER Catcher of w); passes: the
\* caller passes an observer or suppress_recalling_on_error=False
map(w, func, on_success, on_error, on_finalize, suppress_recalling_on_error, secured, passes) ==
    IF secured
    THEN IF w.cat[OUTER].on_error_return_always # ERRORED
         THEN RaiseNew(w, "ValueError")
         ELSE IF passes THEN RaiseNew(w, "ValueError")
         ELSE MapFrom(w, func, 1, <<>>)
    ELSE MapFrom([w EXCEPT !.cat[OUTER] =
                     decorator(on_success, on_error, on_finalize, ERRORED,
                               suppress_recalling_on_error, 1)],
                 func, 1, <<>>)

(***************************************************************************)
(* retry_on_error (decorator.py).  decorator_inner builds the Callbacks    *)
(* and the two Catchers, defines retry_function and wrapper, and then      *)
(* reads the name `catcher`, which neither decorator_inner nor the module  *)
(* binds: the decoration raises NameError and returns no wrapper.          *)
(***************************************************************************)
\* the signature of callable_to_secure with the parameter retries in front
RetrySignature(n) == <<"retries">> \o ParamList(n)

\* Catcher[T](on_error=on_error_callback)
catcher_executor(on_error, n) ==
    Catcher(NoSlot, Slot(ErrorCallback_from_callable(on_error, RetrySignature(n))),
            NoSlot, ERRORED, TRUE)

\* Catcher[tuple[T, int]](on_success=..., on_error=on_fail_callback,
\* on_finalize=...); an observer that is None stays None
catcher_retrier(on_success, on_fail, on_finalize, n) ==
    Catcher(IF on_success.none THEN NoSlot
            ELSE Slot(SuccessCallback_from_callable(on_success, RetrySignature(n))),
            IF on_fail.none THEN NoSlot
            ELSE Slot(ErrorCallback_from_callable(on_fail, RetrySignature(n))),
            IF on_finalize.none THEN NoSlot
            ELSE Slot(Callback_from_callable(on_finalize, RetrySignature(n), <<>>)),
            ERRORED, TRUE)

\* retry_on_error(on_error, ...)(callable_to_secure): the decoration, with
\* the Catchers it built in the world it leaves
retry_on_error(w, on_error, on_success, on_fail, on_finalize, n) ==
    RaiseNew([w EXCEPT !.cat = <<catcher_retrier(on_success, on_fail,
                                                 on_finalize, n),
                                 catcher_executor(on_error, n)>>],
             "NameError")

(***************************************************************************)
(* The state machine: a caller that holds the OUTER Catcher (built by      *)
(* Catcher(...) or by decorator(...)) and the INNER Catcher, and calls     *)
(* one operation after the other.  log is the trace of the last call.      *)
(***************************************************************************)
\* the last one is an observer that expects a value: def on_success(result)
SuccessFns == {Fn(VarArgs, "ret"), Fn(VarArgs, "raise"), Fn(0, "ret"),
               Fn(1, "ret")}
ErrorFns == {Fn(VarArgs, "ret"), Fn(VarArgs, "raise"), Fn(VarArgs, "reraise"),
             Fn(VarArgs, "raisefrom")}
FinalizeFns == {Fn(VarArgs, "ret"), Fn(VarArgs, "raise"), Fn(0, "ret")}
Defaults == {ERRORED, "d1"}

\* Catcher(on_success, on_error, on_finalize, ...) of plain callables
PlainCatchers ==
    {Catcher(PlainSlot(s # NoneFn, s), PlainSlot(e # NoneFn, e),
             PlainSlot(f # NoneFn, f), d, sup) :
        s \in SuccessFns \cup {NoneFn},
        e \in ErrorFns \cup {Fn(VarArgs, "raisecause"), NoneFn},
        f \in FinalizeFns \cup {NoneFn}, d \in Defaults, sup \in BOOLEAN}

DecoratorCatchers(n) ==
    {decorator(s, e, f, d, sup, n) :
        s \in SuccessFns \cup {NoneFn}, e \in ErrorFns \cup {NoneFn},
        f \in FinalizeFns \cup {NoneFn}, d \in Defaults, sup \in BOOLEAN}

\* the Catcher that the nested units of work run
InnerCatchers ==
    {Catcher(NoSlot, PlainSlot(TRUE, e), NoSlot, ERRORED, TRUE) :
        e \in {Fn(VarArgs, "ret"), Fn(VarArgs, "reraise")}}

\* summaries: the CallbackSummary values that the call produced
NoOutcome ==
    [k |-> "none", t |-> "none", result |-> None, error |-> None,
     summaries |-> <<>>, elements |-> <<>>]

\* plan: what the caller does with the function: one call ("call"), two
\* concurrent calls awaited by asyncio.gather ("gather"), one call that it
\* cancels while the call is suspended ("cancel"), or what it gives
\* stream.map; tasks: the calls of a gather
NoOp == [name |-> "none", u |-> Unit("ret", TRUE, <<>>), args |-> <<>>,
         kwargs |-> {}, auto |-> TRUE, plan |-> "call", tasks |-> <<>>]

\* how the function the caller calls is decorated: not at all ("plain": the
\* caller runs the Catcher itself), by decorator(...), or by
\* retry_on_error(...) with max_retries, a decision callback on_error that
\* returns True for the attempts before `stop` and False from then on, and
\* with or without the on_success, on_fail and on_finalize observers
Decoration(kind, max_retries, stop, observers) ==
    [kind |-> kind, nparams |-> MaxArgs, max_retries |-> max_retries,
     stop |-> stop, observers |-> observers]

\* a unit of work that raises on its first `fails` calls and returns from
\* then on: one unit per attempt
RECURSIVE Attempts(_)
Attempts(fails) ==
    IF fails = 0 THEN <<Unit("ret", TRUE, <<>>)>>
    ELSE <<Unit("raise", TRUE, <<>>)>> \o Attempts(fails - 1)

\* the same, with failing calls that raise an error which a Catcher inside
\* the unit of work handled and raised again: it carries a handled-mark
RECURSIVE MarkedAttempts(_)
MarkedAttempts(fails) ==
    IF fails = 0 THEN <<Unit("ret", TRUE, <<>>)>>
    ELSE <<Unit("nested", TRUE, <<Unit("raise", TRUE, <<>>)>>)>>
         \o MarkedAttempts(fails - 1)

FlakyUnits ==
    {Unit("attempts", TRUE, Attempts(fails)) : fails \in 0..(MaxRetries + 1)}
    \cup {Unit("attempts", TRUE, MarkedAttempts(fails)) : fails \in 1..(MaxRetries + 1)}

Init ==
    /\ \/ \E kind \in {"plain", "def", "async def"}, inner \in InnerCatchers :
             /\ deco = Decoration(kind, 0, 0, FALSE)
             /\ \E outer \in IF kind = "plain" THEN PlainCatchers
                             ELSE DecoratorCatchers(MaxArgs) :
                   cat = <<outer, inner>>
       \/ \E outer \in DecoratorCatchers(1), inner \in InnerCatchers :
             /\ deco = Decoration("stream", 0, 0, FALSE)
             /\ cat = <<outer, inner>>
       \/ \E kind \in {"retry def", "retry async def"},
             max_retries \in 0..MaxRetries, stop \in 0..(MaxRetries + 1),
             observers \in BOOLEAN, inner \in InnerCatchers :
             /\ deco = Decoration(kind, max_retries, stop, observers)
             /\ cat = <<Catcher(NoSlot, NoSlot, NoSlot, ERRORED, TRUE), inner>>
       \/ \E inner \in InnerCatchers :
             /\ deco = Decoration("callback", 0, 0, FALSE)
             /\ cat = <<Catcher(NoSlot, NoSlot,
                                PlainSlot(TRUE, Fn(VarArgs, "ret")),
                                ERRORED, TRUE), inner>>
    /\ heap = <<>>
    /\ log = <<>>
    /\ outcome = NoOutcome
    /\ op = NoOp
    /\ pc = "ready"

World ==
    [cat |-> cat, heap |-> <<>>, log |-> <<>>, nexec |-> 0, summaries |-> <<>>]

Done(name, r, u, args, auto) ==
    /\ cat' = r.w.cat
    /\ heap' = r.w.heap
    /\ log' = r.w.log
    /\ outcome' = [k |-> r.k, t |-> r.t, result |-> r.result, error |-> r.error,
                   summaries |-> r.w.summaries, elements |-> <<>>]
    /\ op' = [name |-> name, u |-> u, args |-> args, kwargs |-> {},
              auto |-> auto, plan |-> "call", tasks |-> <<>>]
    /\ pc' = "done"
    /\ UNCHANGED deco

SecureCall ==
    /\ pc = "ready" /\ deco.kind = "plain"
    /\ \E u \in Units, auto \in BOOLEAN :
          Done("secure_call",
               secure_call(World, OUTER, u, ArgList(MaxArgs), auto),
               u, ArgList(MaxArgs), auto)

SecureCallCoroutine ==
    /\ pc = "ready" /\ deco.kind = "plain"
    /\ \E u \in Units :
          Done("secure_call_coroutine",
               secure_call_coroutine(World, OUTER, u, ArgList(MaxArgs), TRUE),
               u, ArgList(MaxArgs), TRUE)

SecureAwait ==
    /\ pc = "ready" /\ deco.kind = "plain"
    /\ \E u \in DefUnits(MaxDepth) :
          Done("secure_await", secure_await(World, OUTER, u, <<>>, TRUE),
               u, <<>>, TRUE)

SecureContext ==
    /\ pc = "ready" /\ deco.kind = "plain"
    /\ \E u \in DefUnits(MaxDepth) :
          Done("secure_context", secure_context(World, OUTER, u, TRUE),
               u, <<>>, TRUE)

Wrapper ==
    /\ pc = "ready" /\ deco.kind = "def"
    /\ \E u \in DefUnits(MaxDepth) :
          Done("wrapper", wrapper(World, OUTER, u, ArgList(deco.nparams)),
               u, ArgList(deco.nparams), TRUE)

AsyncWrapper ==
    /\ pc = "ready" /\ deco.kind = "async def"
    /\ \E u \in DefUnits(MaxDepth) :
          Done("async_wrapper",
               async_wrapper(World, OUTER, u, ArgList(deco.nparams)),
               u, ArgList(deco.nparams), TRUE)

\* what a caller can do with a function (def) and with a coroutine function
Plans(kind) ==
    IF kind = "retry async def" THEN {"call", "gather", "cancel"} ELSE {"call"}

\* the caller decorates a function with retry_on_error and then calls it as
\* planned; the decoration raises, so that no call follows and the Catchers
\* of the decoration are dropped
RetryOnError ==
    /\ pc = "ready" /\ deco.kind \in {"retry def", "retry async def"}
    /\ \E u \in FlakyUnits, plan \in Plans(deco.kind) :
          LET given(beh) == IF deco.observers THEN Fn(VarArgs, beh) ELSE NoneFn
              decorated == retry_on_error(World, Fn(VarArgs, "decide"),
                                          given("ret"), given("ret"),
                                          given("ret"), deco.nparams)
          IN /\ decorated.k = "raise"
             /\ heap' = decorated.w.heap
             /\ log' = decorated.w.log
             /\ outcome' = [k |-> decorated.k, t |-> decorated.t,
                            result |-> decorated.result,
                            error |-> decorated.error,
                            summaries |-> decorated.w.summaries,
                            elements |-> <<>>]
             /\ op' = [name |-> "retry_on_error", u |-> u,
                       args |-> ArgList(deco.nparams), kwargs |-> {},
                       auto |-> TRUE, plan |-> plan, tasks |-> <<>>]
             /\ pc' = "done"
             /\ UNCHANGED <<cat, deco>>

\* the stream has ended with r
StreamDone(r, func, secured, passes) ==
    /\ cat' = r.w.cat
    /\ heap' = r.w.heap
    /\ log' = r.w.log
    /\ outcome' = [k |-> r.k, t |-> r.t, result |-> None, error |-> r.error,
                   summaries |-> r.w.summaries,
                   elements |-> IF r.k = "ret" THEN r.result ELSE <<>>]
    /\ op' = [name |-> "map", u |-> func, args |-> <<>>, kwargs |-> {},
              auto |-> TRUE,
              plan |-> IF ~secured THEN "plain function"
                       ELSE IF passes THEN "secured function and observers"
                       ELSE "secured function",
              tasks |-> <<>>]
    /\ pc' = "done"
    /\ UNCHANGED deco

\* a call of the decorated coroutine function that asyncio.gather runs as a
\* task: suspended in its unit of work until it is resumed
Task(args) ==
    [args |-> args, st |-> "awaiting", exec |-> 0, k |-> "none",
     result |-> None, error |-> None]

\* the arguments of the second call
OtherArgList(n) == [i \in 1..n |-> OtherArgName[i]]

\* results = await asyncio.gather(async_function(a), async_function(b)):
\* both tasks start and run up to the await inside the unit of work
Gather ==
    /\ pc = "ready" /\ deco.kind = "async def"
    /\ \E u \in DefUnits(MaxDepth) :
          op' = [name |-> "gather", u |-> u, args |-> ArgList(deco.nparams),
                 kwargs |-> {}, auto |-> TRUE, plan |-> "gather",
                 tasks |-> <<Task(ArgList(deco.nparams)),
                             Task(OtherArgList(deco.nparams))>>]
    /\ pc' = "gather"
    /\ UNCHANGED <<cat, deco, heap, log, outcome>>

\* the world that a resumed task finds: the Catcher, the errors and the
\* trace as the tasks that ran before it left them
Resumed ==
    [cat |-> cat, heap |-> heap, log |-> log,
     nexec |-> Cardinality({log[j].exec : j \in 1..Len(log)}),
     summaries |-> outcome.summaries]

\* task i has run to its end with r: gather raises the first error of a
\* task to the caller, which leaves the other task behind, and returns
\* the list of the results once every task has returned
Finished(i, r) ==
    /\ cat' = r.w.cat
    /\ heap' = r.w.heap
    /\ log' = r.w.log
    /\ op' = [op EXCEPT !.tasks[i] =
                 [args |-> @.args, st |-> "done", exec |-> Resumed.nexec + 1,
                  k |-> r.k, result |-> r.result, error |-> r.error]]
    /\ IF r.k = "raise"
       THEN /\ pc' = "done"
            /\ outcome' = [k |-> "raise", t |-> "exc", result |-> None,
                           error |-> r.error, summaries |-> r.w.summaries,
                           elements |-> <<>>]
       ELSE IF \A j \in 1..Len(op.tasks) : j = i \/ op.tasks[j].st = "done"
       THEN /\ pc' = "done"
            /\ outcome' = [k |-> "ret", t |-> "val", result |-> "results",
                           error |-> None, summaries |-> r.w.summaries,
                           elements |-> <<>>]
       ELSE /\ pc' = "gather"
            /\ outcome' = [outcome EXCEPT !.summaries = r.w.summaries]
    /\ UNCHANGED deco

\* the event loop resumes a suspended task: its unit of work finishes and
\* the rest of secure_await and of the wrapper, which has no await, runs to
\* its end before any other task runs
Resume ==
    /\ pc = "gather"
    /\ \E i \in 1..Len(op.tasks) :
          /\ op.tasks[i].st = "awaiting"
          /\ Finished(i, async_wrapper(Resumed, OUTER, op.u, op.tasks[i].args))

\* the functions that map is given: for each element of a source of 1 to
\* MaxSource elements, the function returns the element or raises
RECURSIVE Funcs(_)
Funcs(len) ==
    IF len = 0 THEN {<<>>}
    ELSE {<<u>> \o rest : u \in {Unit("echo", TRUE, <<>>), Unit("raise", TRUE, <<>>)},
                          rest \in Funcs(len - 1)}

StreamFuncs ==
    {Unit("each", TRUE, sub) : sub \in UNION {Funcs(len) : len \in 1..MaxSource}}

\* the observer that a Callback of the OUTER Catcher wraps
ObserverOf(slot) == cat[OUTER][slot].cb.callback

\* elements = await stream.list(stream.map(source, func, ...)): the caller
\* gives map a function that decorator secured before with the observers
\* (secured), or the plain function and the observers
StreamMap ==
    /\ pc = "ready" /\ deco.kind = "stream"
    /\ \E func \in StreamFuncs, secured \in BOOLEAN, passes \in BOOLEAN :
          /\ ~secured => passes
          /\ StreamDone(map(World, func, ObserverOf("on_success"),
                            ObserverOf("on_error"), ObserverOf("on_finalize"),
                            cat[OUTER].suppress_recalling_on_error, secured,
                            passes),
                        func, secured, passes)

\* the caller records one injection in the Callback: a positional one at
\* an index, or a named one
InjectParameters ==
    /\ pc = "ready" /\ deco.kind = "callback"
    /\ \/ \E index \in 0..MaxArgs, value \in {"i1", "i2"} :
             LET cb == inject_parameters(cat[OUTER].on_finalize.cb,
                                         <<<<index, value>>>>, {})
             IN /\ Len(cb.args_to_inject) <= MaxInject
                /\ cat' = [cat EXCEPT ![OUTER].on_finalize.cb = cb]
       \/ \E p \in {<<"k1", "j1">>, <<"k2", "j2">>} :
             cat' = [cat EXCEPT ![OUTER].on_finalize.cb =
                                   inject_parameters(@, <<>>, {p})]
    /\ UNCHANGED <<deco, heap, log, outcome, op, pc>>

\* Callback.__call__(*args, **kwargs) of a function declared with
\* (*args, **kwargs): kwargs.update(self._kwargs_to_inject), and the call
\* of CallCallback; the call is no dispatch by a Catcher, and the trace
\* has it as a call of "callback"
CallWithKwargs(w, ex, c, slot, a, kwargs) ==
    LET r == CallCallback(w, ex, c, slot, a)
    IN [r EXCEPT !.w.log[Len(r.w.log)].kwargs =
                     KwargsUpdate(kwargs, w.cat[c][slot].cb.kwargs_to_inject),
                 !.w.log[Len(r.w.log)].slot = "callback"]

\* the caller calls the Callback itself
CallInjected ==
    /\ pc = "ready" /\ deco.kind = "callback"
    /\ \E n \in 0..MaxArgs, kwargs \in SUBSET {<<"k1", "c1">>, <<"k2", "c2">>} :
          LET r == CallWithKwargs(World, 1, OUTER, "on_finalize", ArgList(n),
                                  kwargs)
          IN /\ cat' = r.w.cat
             /\ heap' = r.w.heap
             /\ log' = r.w.log
             /\ outcome' = [k |-> r.k, t |-> r.t, result |-> r.result,
                            error |-> r.error, summaries |-> <<>>,
                            elements |-> <<>>]
             /\ op' = [NoOp EXCEPT !.name = "Callback.__call__",
                                   !.args = ArgList(n), !.kwargs = kwargs]
    /\ pc' = "done"
    /\ UNCHANGED deco

\* the caller goes on to its next call, with a new trace
Continue ==
    /\ pc = "done"
    /\ pc' = "ready"
    /\ heap' = <<>>
    /\ log' = <<>>
    /\ outcome' = NoOutcome
    /\ op' = NoOp
    /\ UNCHANGED <<cat, deco>>

Next ==
    \/ SecureCall
    \/ SecureCallCoroutine
    \/ SecureAwait
    \/ SecureContext
    \/ Wrapper
    \/ AsyncWrapper
    \/ RetryOnError
    \/ Gather
    \/ Resume
    \/ StreamMap
    \/ InjectParameters
    \/ CallInjected
    \/ Continue

Spec == Init /\ [][Next]_vars

(***************************************************************************)
(* What the trace of the last call shows.                                  *)
(***************************************************************************)
\* the entries of the trace for one slot of one Catcher execution
Evs(ex, slot) ==
    {i \in 1..Len(log) : log[i].exec = ex /\ log[i].slot = slot}

Execs == {log[i].exec : i \in 1..Len(log)}

\* the Catcher that ran execution ex
CatOf(ex) == cat[log[CHOOSE i \in 1..Len(log) : log[i].exec = ex].cat]

\* the observer in a slot of the OUTER Catcher was given, as a function
Given(slot) ==
    cat[OUTER][slot].reg /\ ~cat[OUTER][slot].cb.callback.none

\* ... and it accepts every argument list and returns normally
Benign(slot) == Given(slot) /\ cat[OUTER][slot].cb.callback = Fn(VarArgs, "ret")

\* the unit of work of execution ex returned / raised
UnitReturned(ex) == \E i \in Evs(ex, "unit") : ~log[i].raised

UnitRaised(ex, e) == \E i \in Evs(ex, "unit") : log[i].raised /\ log[i].err = e

(***************************************************************************)
(* C1: in every Catcher execution with a finalize observer registered the  *)
(* finalize observer is invoked exactly once, whatever the unit of work    *)
(* and the other observers do.                                             *)
(***************************************************************************)
C1_FinalizeExactlyOnce ==
    (pc = "done" /\ Given("on_finalize"))
        => Cardinality(Evs(1, "on_finalize")) = 1

(***************************************************************************)
(* C2: in one Catcher execution at most one of the success observer and    *)
(* the error observer is invoked: the success observer only if the unit of *)
(* work returned, the error observer only with an error that the unit of   *)
(* work raised.                                                            *)
(***************************************************************************)
C2_ExclusiveRouting ==
    \A ex \in Execs :
        /\ ~(Evs(ex, "on_success") # {} /\ Evs(ex, "on_error") # {})
        /\ Evs(ex, "on_success") # {} => UnitReturned(ex)
        /\ \A i \in Evs(ex, "on_error") : UnitRaised(ex, log[i].args[1])

(***************************************************************************)
(* C3: in every Catcher execution the unit of work finishes first, then    *)
(* the success or the error observer is dispatched, then the finalize      *)
(* observer; no observer is dispatched before the unit of work finished    *)
(* and the finalize observer never before another observer of the same     *)
(* execution.                                                              *)
(***************************************************************************)
C3_DispatchOrder ==
    \A ex \in Execs :
        /\ \A j \in Evs(ex, "on_success") \cup Evs(ex, "on_error")
                    \cup Evs(ex, "on_finalize") :
              \E i \in Evs(ex, "unit") : i < j
        /\ \A j \in Evs(ex, "on_finalize") :
              \A i \in Evs(ex, "on_success") \cup Evs(ex, "on_error") : i < j

\* an execution in which the unit of work, the error observer and the
\* finalize observer all ran
C3_Witness ==
    /\ pc = "done"
    /\ \E ex \in Execs :
          /\ Evs(ex, "unit") # {}
          /\ \E i \in Evs(ex, "on_error") : log[i].ran
          /\ \E j \in Evs(ex, "on_finalize") : log[j].ran

(***************************************************************************)
(* C4: when a unit of work called with (a1..an) returns V, the success     *)
(* observer is invoked exactly once, with V followed by a1..an in their    *)
(* order, and a function wrapped by decorator returns V.  (Stated for      *)
(* Python functions as units of work and three observers that accept any   *)
(* arguments and return normally.)                                         *)
(***************************************************************************)
C4_SuccessDispatch ==
    (/\ pc = "done"
     /\ op.name \in {"secure_call", "secure_call_coroutine", "wrapper",
                     "async_wrapper"}
     /\ op.u.hasSig
     /\ UnitReturned(1)
     /\ Benign("on_success") /\ Benign("on_error") /\ Benign("on_finalize"))
    => LET V == log[CHOOSE i \in Evs(1, "unit") : TRUE].res
       IN /\ Cardinality(Evs(1, "on_success")) = 1
          /\ \A i \in Evs(1, "on_success") :
                log[i].ran /\ log[i].args = <<V>> \o op.args
          /\ op.name \in {"wrapper", "async_wrapper"}
                => outcome.k = "ret" /\ outcome.result = V

(***************************************************************************)
(* C5: when the unit of work raises E and the error observer returns       *)
(* normally, the execution yields a NegativeResult whose error is E itself *)
(* and whose result is on_error_return_always, the error observer was      *)
(* invoked with (E, original arguments), and a function wrapped by         *)
(* decorator returns on_error_return_always.  (Stated for a unit of work   *)
(* that raises a new error and three observers that accept any arguments   *)
(* and return normally.)                                                   *)
(***************************************************************************)
C5_NegativeResult ==
    (/\ pc = "done"
     /\ op.name \in {"secure_call", "secure_call_coroutine", "secure_await",
                     "wrapper", "async_wrapper"}
     /\ op.u.hasSig /\ op.u.k = "raise"
     /\ Benign("on_success") /\ Benign("on_error") /\ Benign("on_finalize"))
    => LET E == log[CHOOSE i \in Evs(1, "unit") : TRUE].err
       IN /\ Cardinality(Evs(1, "on_error")) = 1
          /\ \A i \in Evs(1, "on_error") :
                log[i].ran /\ log[i].args = <<E>> \o op.args
          /\ outcome.k = "ret"
          /\ outcome.result = cat[OUTER].on_error_return_always
          /\ op.name \notin {"wrapper", "async_wrapper"}
                => outcome.t = "Neg" /\ outcome.error = E

C7_ObserverReraise ==
    (/\ pc = "done" /\ op.name \in {"wrapper", "async_wrapper"}
     /\ op.u.k = "raise"
     /\ cat[OUTER].on_error.cb.callback = Fn(VarArgs, "reraise")
     /\ \A slot \in {"on_success", "on_finalize"} :
           ~Given(slot) \/ Benign(slot))
    => outcome.k = "raise" /\ UnitRaised(1, outcome.error)

\* execution p ran inside the unit of work of execution q, raised a new
\* error E in its own unit of work and let E leave to q
Nested(q, p, E) ==
    /\ q \in Execs /\ p = q + 1 /\ p \in Execs
    /\ \E i \in Evs(p, "unit") :
          log[i].raised /\ log[i].err = E /\ log[i].marks = <<>>
    /\ UnitRaised(q, E)

\* the errors that the trace of the last call names
Errors == {log[i].err : i \in 1..Len(log)} \ {None}

ErrorDispatches(ex, E) ==
    {i \in Evs(ex, "on_error") : log[i].args # <<>> /\ log[i].args[1] = E}

(***************************************************************************)
(* C8: a Catcher execution q secures a unit of work that runs a Catcher    *)
(* execution p, both Catchers with suppress_recalling_on_error = True, the *)
(* unit of p raises E and E leaves p unchanged: the error observer of p    *)
(* was invoked with E exactly once, the handled-mark of E is [Catcher of   *)
(* p] when E leaves p, and the error observer of q is not invoked.         *)
(***************************************************************************)
C8_SuppressionEnabled ==
    \A q \in Execs, E \in Errors :
        (/\ pc = "done"
         /\ Nested(q, q + 1, E)
         /\ CatOf(q).suppress_recalling_on_error
         /\ CatOf(q + 1).suppress_recalling_on_error)
        => /\ Cardinality(ErrorDispatches(q + 1, E)) = 1
           /\ Cardinality(Evs(q + 1, "on_error")) = 1
           /\ \A i \in Evs(q, "unit") :
                 \A j \in Evs(q + 1, "unit") : log[i].marks = <<log[j].cat>>
           /\ Evs(q, "on_error") = {}

\* the OUTER Catcher has an error observer and suppression enabled, and the
\* error that its nested unit of work raised reached it
C8_Witness ==
    /\ pc = "done"
    /\ Given("on_error") /\ cat[OUTER].suppress_recalling_on_error
    /\ \E E \in Errors : Nested(1, 2, E) /\ ErrorDispatches(2, E) # {}
    /\ outcome.t = "Neg"

(***************************************************************************)
(* C9: in the same nesting, when the Catcher of q has                      *)
(* suppress_recalling_on_error = False (and an error observer), the error  *)
(* observer of q is invoked with the same E exactly once, after the error  *)
(* observer of p, so that E is dispatched twice in total.                  *)
(***************************************************************************)
C9_SuppressionDisabled ==
    \A E \in Errors :
        (/\ pc = "done"
         /\ Nested(1, 2, E)
         /\ Given("on_error")
         /\ ~cat[OUTER].suppress_recalling_on_error)
        => /\ Cardinality(ErrorDispatches(1, E)) = 1
           /\ Cardinality(ErrorDispatches(2, E)) = 1
           /\ \A i \in ErrorDispatches(1, E), j \in ErrorDispatches(2, E) :
                 log[i].ran /\ j < i

(***************************************************************************)
(* C10: when in one Catcher execution the error observer raises and the    *)
(* finalize observer raises too, the caller receives an aggregate error    *)
(* holding both failures, and not one of the two failures alone.           *)
(***************************************************************************)
C10_AggregateFailure ==
    \A i \in Evs(1, "on_error"), j \in Evs(1, "on_finalize") :
        (pc = "done" /\ log[i].raised /\ log[j].raised)
        => /\ outcome.k = "raise"
           /\ outcome.error \notin {log[i].err, log[j].err}
           /\ heap[ErrIdx(outcome.error)].kind = "BaseExceptionGroup"

\* the errors reached from e by following __cause__, e first
RECURSIVE CauseWalk(_, _)
CauseWalk(e, n) ==
    IF e = None \/ n = 0 THEN <<>>
    ELSE <<e>> \o CauseWalk(heap[ErrIdx(e)].cause, n - 1)

\* ... as far as one step more than there are errors: a longer walk than
\* there are errors is a walk around a cycle
CauseChain(e) == CauseWalk(e, Len(heap) + 1)

\* the causes an error was raised from, before any Catcher handled it
RECURSIVE PriorCauses(_)
PriorCauses(chain) ==
    IF chain = <<>> \/ heap[ErrIdx(Head(chain))].kind # "PriorCause" THEN <<>>
    ELSE <<Head(chain)>> \o PriorCauses(Tail(chain))

(***************************************************************************)
(* C11: when the error observer, dispatched with E, raises another error   *)
(* E2, then E2 leaves the error dispatch (and the Catcher, unless the      *)
(* finalize step raises), E is reached from E2 by the cause links, and the *)
(* causes E2 was raised from are still there in their order, followed by   *)
(* E and the causes of E.                                                  *)
(***************************************************************************)
C11_CauseChain ==
    \A i \in Evs(1, "on_error") :
        (pc = "done" /\ log[i].raised /\ log[i].err # log[i].args[1])
        => LET E == log[i].args[1]
               E2 == log[i].err
               prior == PriorCauses(Tail(CauseChain(E2)))
               after == <<E2>> \o prior \o CauseChain(E)
           IN /\ Len(CauseChain(E2)) >= Len(prior) + 2
              /\ CauseChain(E2) = SubSeq(after, 1, Len(CauseChain(E2)))
              /\ cat[OUTER].on_error.cb.callback.beh = "raisefrom"
                    => Len(prior) = 1
              /\ (\A j \in Evs(1, "on_finalize") : ~log[j].raised)
                    => outcome.k = "raise" /\ outcome.error = E2

\* the error observer raised an error that had a cause of its own
C11_Witness ==
    /\ pc = "done"
    /\ \E i \in Evs(1, "on_error") :
          /\ log[i].raised /\ log[i].ran
          /\ Len(CauseChain(log[i].err)) = 3
          /\ outcome.error = log[i].err

\* the dispatches of observers in execution ex
Dispatches(ex) ==
    {i \in 1..Len(log) : log[i].exec = ex /\ log[i].slot # "unit"}

\* the dispatches whose arguments the observer's function did not accept
Mismatches(ex) ==
    {i \in Dispatches(ex) :
        ~log[i].ran /\ heap[ErrIdx(log[i].err)].kind = "TypeError"}

(***************************************************************************)
(* C12: whenever the arguments assembled for an observer do not match, the *)
(* TypeError of a mismatch reaches the caller of the Catcher execution     *)
(* (the execution does not return), and each observer whose arguments      *)
(* matched was invoked exactly once.                                       *)
(***************************************************************************)
C12_MismatchReachesCaller ==
    (pc = "done" /\ Mismatches(1) # {})
    => /\ outcome.k = "raise"
       /\ \E i \in Mismatches(1) : outcome.error = log[i].err
       /\ \A slot \in {"on_success", "on_error", "on_finalize"} :
             Cardinality({i \in Evs(1, slot) : log[i].ran}) <= 1

(***************************************************************************)
(* C13: Callback.__call__ forwards the call to the wrapped function if and *)
(* only if the assembled arguments bind to the expected contract of the    *)
(* Callback (as many positional arguments as expected_signature has        *)
(* parameters).                                                            *)
(***************************************************************************)
C13_ContractValidation ==
    \A i \in Dispatches(1) :
        (pc = "done" /\ ~cat[log[i].cat][log[i].slot].cb.callback.none)
        => (log[i].ran <=>
               Len(log[i].args) =
                   Len(cat[log[i].cat][log[i].slot].cb.expected_signature))

(***************************************************************************)
(* What the trace shows of a call of a function decorated by               *)
(* retry_on_error: the attempts run under catcher_executor (INNER), the    *)
(* whole retry sequence under catcher_retrier (OUTER).                     *)
(***************************************************************************)
RetryCall == pc = "done" /\ op.name = "retry_on_error"

\* the attempt index as the observers are given it
AttemptName == <<"0", "1", "2", "3", "4", "5">>

AttemptCount(k) == AttemptName[k + 1]

\* the number of calls of the unit of work that raise before one returns
Fails == Len(op.u.sub) - 1

\* the calls of the unit of work, the decisions of on_error, the waits
UnitCalls == {i \in 1..Len(log) : log[i].slot = "unit" /\ log[i].cat = INNER}

Decisions == {i \in 1..Len(log) : log[i].slot = "on_error" /\ log[i].cat = INNER}

Waits == {i \in 1..Len(log) : log[i].slot = "sleep"}

\* the dispatches of an observer of the whole retry sequence
Overall(slot) == {i \in 1..Len(log) : log[i].slot = slot /\ log[i].cat = OUTER}

\* the j-th entry of a set of trace entries
Nth(S, j) == CHOOSE i \in S : Cardinality({x \in S : x <= i}) = j

\* the call succeeds on attempt Fails: it is allowed and every failing
\* attempt before it is answered True
SucceedsAfterRetries ==
    RetryCall /\ Fails < deco.max_retries /\ deco.stop >= Fails

\* every allowed attempt fails and is answered True
Exhausts == RetryCall /\ Fails >= deco.max_retries /\ deco.stop >= deco.max_retries

\* the failing attempt deco.stop is answered False
Aborts == RetryCall /\ deco.stop < deco.max_retries /\ Fails > deco.stop

\* the attempt count of the call that ended
FinalCount ==
    IF SucceedsAfterRetries THEN Fails
    ELSE IF Aborts THEN deco.stop ELSE deco.max_retries

(***************************************************************************)
(* C14: with a decision callback answering True, a unit of work that       *)
(* raises on attempts 0..k-1 and returns V on attempt k < max_retries      *)
(* makes the wrapped call return V; the unit of work was called k+1 times  *)
(* and the decision callback k times, for attempt j with the error of      *)
(* attempt j and the index j.                                              *)
(***************************************************************************)
C14_RetryDeterminism ==
    SucceedsAfterRetries
    => /\ outcome.k = "ret" /\ outcome.result = "v1"
       /\ Cardinality(UnitCalls) = Fails + 1
       /\ Cardinality(Decisions) = Fails
       /\ \A j \in 1..Fails :
             /\ Nth(UnitCalls, j) < Nth(Decisions, j)
             /\ Nth(Decisions, j) < Nth(UnitCalls, j + 1)
             /\ log[Nth(Decisions, j)].args =
                   <<log[Nth(UnitCalls, j)].err, AttemptCount(j - 1)>> \o op.args

(***************************************************************************)
(* C15: with max_retries N >= 1, a unit of work that raises on every       *)
(* attempt and a decision callback answering True, the wrapped call raises *)
(* the too-many-retries RuntimeError; the unit of work was called N times  *)
(* and the decision callback N times, with the indices 0..N-1.             *)
(***************************************************************************)
C15_Exhaustion ==
    (Exhausts /\ deco.max_retries >= 1)
    => /\ outcome.k = "raise"
       /\ heap[ErrIdx(outcome.error)].kind = "RuntimeError"
       /\ Cardinality(UnitCalls) = deco.max_retries
       /\ Cardinality(Decisions) = deco.max_retries
       /\ \A j \in 1..deco.max_retries :
             log[Nth(Decisions, j)].args[2] = AttemptCount(j - 1)

(***************************************************************************)
(* C16: when the decision callback answers False on failing attempt k, the *)
(* wrapped call raises the error the unit of work raised on attempt k; the *)
(* unit of work is not called again and no wait follows that decision.     *)
(***************************************************************************)
C16_EarlyAbort ==
    Aborts
    => /\ outcome.k = "raise"
       /\ Cardinality(UnitCalls) = deco.stop + 1
       /\ Cardinality(Decisions) = deco.stop + 1
       /\ outcome.error = log[Nth(UnitCalls, deco.stop + 1)].err
       /\ \A i \in Waits : i < Nth(Decisions, deco.stop + 1)

(***************************************************************************)
(* C17: when the wrapped call succeeds on attempt k with V, the success    *)
(* observer of the retry sequence is invoked exactly once, with V, k and   *)
(* the original arguments, and the fail observer is not invoked.           *)
(***************************************************************************)
C17_OverallSuccessDispatch ==
    (SucceedsAfterRetries /\ deco.observers)
    => /\ Cardinality(Overall("on_success")) = 1
       /\ \A i \in Overall("on_success") :
             log[i].ran /\ log[i].args = <<"v1", AttemptCount(Fails)>> \o op.args
       /\ Overall("on_error") = {}

(***************************************************************************)
(* C18: when the wrapped call fails (attempts exhausted, or a False        *)
(* decision at attempt k), the fail observer is invoked exactly once, with *)
(* the error raised to the caller, the attempt count (max_retries, or k)   *)
(* and the original arguments, and the success observer is not invoked.    *)
(***************************************************************************)
C18_OverallFailureDispatch ==
    ((Exhausts \/ Aborts) /\ deco.observers)
    => /\ outcome.k = "raise"
       /\ Cardinality(Overall("on_error")) = 1
       /\ \A i \in Overall("on_error") :
             /\ log[i].ran
             /\ log[i].args =
                   <<outcome.error, AttemptCount(FinalCount)>> \o op.args
       /\ Overall("on_success") = {}

(***************************************************************************)
(* C19: for every wrapped call the finalize observer of the retry sequence *)
(* is invoked exactly once, with the attempt count and the original        *)
(* arguments, after the success or fail observer of that call.             *)
(***************************************************************************)
C19_OverallFinalizeDispatch ==
    (RetryCall /\ deco.observers)
    => /\ Cardinality(Overall("on_finalize")) = 1
       /\ \A i \in Overall("on_finalize") :
             /\ log[i].ran
             /\ log[i].args = <<AttemptCount(FinalCount)>> \o op.args
             /\ \A j \in Overall("on_success") \cup Overall("on_error") : j < i
       /\ Cardinality(Overall("on_success") \cup Overall("on_error")) = 1

(***************************************************************************)
(* C20: the wrapped call waits retry_stepping_func(i) once after each      *)
(* failing attempt i that is answered True and is not the last allowed     *)
(* attempt, before attempt i+1, and never otherwise: a call that exhausts  *)
(* max_retries >= 1 attempts waits max_retries - 1 times, a call that ends *)
(* at attempt k (success or False decision) waits k times.                 *)
(***************************************************************************)
C20_BackoffBetweenAttempts ==
    (RetryCall /\ deco.max_retries >= 1)
    => /\ Cardinality(UnitCalls) >= 1
       /\ Cardinality(Waits) = Cardinality(UnitCalls) - 1
       /\ Cardinality(Waits) =
             IF Exhausts THEN deco.max_retries - 1 ELSE FinalCount
       /\ \A j \in 1..Cardinality(Waits) :
             /\ log[Nth(Waits, j)].args = <<AttemptCount(j - 1)>>
             /\ Nth(UnitCalls, j) < Nth(Waits, j)
             /\ Nth(Waits, j) < Nth(UnitCalls, j + 1)

(***************************************************************************)
(* C21: every call of a function decorated by retry_on_error ends in one   *)
(* of: the value of the unit of work returned; the too-many-retries        *)
(* RuntimeError raised; an error that the unit of work raised, raised (as  *)
(* it is after a False decision, or when the decision callback re-raised   *)
(* it).  No other error reaches the caller.                                *)
(***************************************************************************)
C21_ClosedOutcomes ==
    RetryCall
    => \/ outcome.k = "ret" /\ outcome.result = "v1" /\ UnitCalls # {}
       \/ /\ outcome.k = "raise"
          /\ heap[ErrIdx(outcome.error)].kind = "RuntimeError"
          /\ Cardinality(UnitCalls) = deco.max_retries
       \/ /\ outcome.k = "raise"
          /\ \E i \in UnitCalls : log[i].raised /\ log[i].err = outcome.error

(***************************************************************************)
(* What the trace shows of two concurrent calls.                           *)
(***************************************************************************)
\* the argument lists of the two calls
CallArgs == {ArgList(deco.nparams), OtherArgList(deco.nparams)}

\* the trace entries of S whose arguments end with the call arguments A
OfCall(S, A) ==
    {i \in S : /\ Len(log[i].args) >= Len(A)
               /\ \A j \in 1..Len(A) :
                     log[i].args[Len(log[i].args) - Len(A) + j] = A[j]}

\* the entries of S before entry i
Before(S, i) == {j \in S : j < i}

(***************************************************************************)
(* C22: when two calls of one coroutine function decorated by              *)
(* retry_on_error run concurrently and succeed, each call has exactly one  *)
(* success and one finalize dispatch, with its own arguments and its own   *)
(* attempt count (the number of its own decisions), and every decision is  *)
(* given the attempt index of its own call: the number of decisions that   *)
(* call had before.                                                        *)
(***************************************************************************)
C22_ConcurrentRetries ==
    (SucceedsAfterRetries /\ op.plan = "gather" /\ deco.observers)
    => /\ outcome.k = "ret"
       /\ \A A \in CallArgs :
             /\ \A i \in OfCall(Decisions, A) :
                   log[i].args[2] =
                      AttemptCount(Cardinality(Before(OfCall(Decisions, A), i)))
             /\ Cardinality(OfCall(Overall("on_success"), A)) = 1
             /\ Cardinality(OfCall(Overall("on_finalize"), A)) = 1
             /\ \A i \in OfCall(Overall("on_success"), A) :
                   log[i].args[2] =
                      AttemptCount(Cardinality(OfCall(Decisions, A)))
             /\ \A i \in OfCall(Overall("on_finalize"), A) :
                   log[i].args[1] =
                      AttemptCount(Cardinality(OfCall(Decisions, A)))

\* asyncio.gather of two calls of a decorated coroutine function has ended
GatherCall == pc = "done" /\ op.name = "gather"

\* the dispatches of a slot of the OUTER Catcher in the execution of task t
TaskEvs(t, slot) ==
    {i \in 1..Len(log) : /\ log[i].exec = op.tasks[t].exec
                         /\ log[i].cat = OUTER /\ log[i].slot = slot}

\* the trace entries of the execution of task t
TaskTrace(t) == {i \in 1..Len(log) : log[i].exec = op.tasks[t].exec}

(***************************************************************************)
(* C23: when two calls of one coroutine function wrapped by decorator run  *)
(* concurrently, their units of work return and the observers are          *)
(* well-behaved, each call returns its value, its success observer is      *)
(* invoked exactly once with its result and its arguments, its finalize    *)
(* observer exactly once with its arguments, and no step of the other call *)
(* lies between the dispatches of one call.                                *)
(***************************************************************************)
C23_AtomicDispatch ==
    (/\ GatherCall /\ op.u.k = "ret"
     /\ Benign("on_success") /\ Benign("on_finalize")
     /\ ~cat[OUTER].on_error.reg \/ Benign("on_error"))
    => \A t \in 1..Len(op.tasks) :
          /\ op.tasks[t].st = "done" /\ op.tasks[t].k = "ret"
          /\ op.tasks[t].result = "v1"
          /\ Cardinality(TaskEvs(t, "on_success")) = 1
          /\ \A i \in TaskEvs(t, "on_success") :
                log[i].ran /\ log[i].args = <<"v1">> \o op.tasks[t].args
          /\ Cardinality(TaskEvs(t, "on_finalize")) = 1
          /\ \A i \in TaskEvs(t, "on_finalize") :
                log[i].ran /\ log[i].args = op.tasks[t].args
          /\ TaskEvs(t, "on_error") = {}
          /\ \A i, j \in TaskTrace(t) : \A m \in i..j : m \in TaskTrace(t)

(***************************************************************************)
(* C24: when a call of a coroutine function decorated by retry_on_error is *)
(* cancelled while it waits after its first failing attempt, the caller    *)
(* gets the CancelledError, the finalize observer of the retry sequence is *)
(* dispatched exactly once, the unit of work is not called again and the   *)
(* fail observer is not given an attempt count for the cancellation.       *)
(***************************************************************************)
C24_Cancellation ==
    (/\ RetryCall /\ op.plan = "cancel" /\ deco.observers
     /\ deco.max_retries >= 2 /\ Fails >= 1 /\ deco.stop >= 1)
    => /\ outcome.k = "raise"
       /\ heap[ErrIdx(outcome.error)].kind = "CancelledError"
       /\ Cardinality(Overall("on_finalize")) = 1
       /\ Cardinality(UnitCalls) = 1
       /\ Cardinality(Waits) = 1
       /\ Overall("on_error") = {}

\* the dispatches to the observers of the OUTER Catcher that a trace holds,
\* in their order: the observer, whether it was invoked, its arguments
Observed(trace) ==
    LET own == SelectSeq(trace, LAMBDA ev : ev.cat = OUTER /\ ev.slot # "unit")
    IN [i \in 1..Len(own) |->
           [slot |-> own[i].slot, ran |-> own[i].ran, args |-> own[i].args]]

\* what a caller sees of a call that ended with r
Seen(r) ==
    [k |-> r.k, result |-> r.result,
     error |-> IF r.k = "raise" THEN Exc(r.w, r.error).kind ELSE None]

(***************************************************************************)
(* C25: a call of a coroutine function wrapped by decorator dispatches to  *)
(* the same observers, in the same order and with the same arguments, and  *)
(* returns the same value or raises the same kind of error, as the call    *)
(* of a function (def) wrapped by decorator with the same observers, the   *)
(* same unit of work and the same arguments.                               *)
(***************************************************************************)
C25_SyncAsyncEquivalence ==
    [][(/\ pc = "ready" /\ pc' = "done" /\ op'.name = "async_wrapper"
        /\ cat[OUTER] \in DecoratorCatchers(deco.nparams))
       => /\ Observed(log') =
                Observed(wrapper(World, OUTER, op'.u, op'.args).w.log)
          /\ [k |-> outcome'.k, result |-> outcome'.result,
              error |-> IF outcome'.k = "raise"
                        THEN heap'[ErrIdx(outcome'.error)].kind ELSE None] =
                Seen(wrapper(World, OUTER, op'.u, op'.args))]_vars

(***************************************************************************)
(* What the trace shows of a with-block run under secure_context.          *)
(***************************************************************************)
ContextCall == pc = "done" /\ op.name = "secure_context"

\* the dispatches of a slot in the execution of the block
ScopedEvs(slot) == Evs(1, slot)

\* exactly one dispatch of the slot, invoked with the arguments a
OnceWith(slot, a) ==
    /\ Cardinality(ScopedEvs(slot)) = 1
    /\ \A i \in ScopedEvs(slot) : log[i].ran /\ log[i].args = a

(***************************************************************************)
(* C26: a block under secure_context that completes normally has its       *)
(* success observer invoked exactly once with no arguments and its error   *)
(* observer not at all; a block that raises a new error E has its error    *)
(* observer invoked exactly once with (E) and its success observer not at  *)
(* all; in both cases the finalize observer is invoked exactly once with   *)
(* no arguments, after the other observer.                                 *)
(***************************************************************************)
C26_ScopedDispatch ==
    ContextCall
    => /\ op.u.k = "ret"
          => /\ Given("on_success") => OnceWith("on_success", <<>>)
             /\ ScopedEvs("on_error") = {}
       /\ op.u.k = "raise"
          => /\ Given("on_error")
                => OnceWith("on_error", <<log[CHOOSE i \in ScopedEvs("unit") : TRUE].err>>)
             /\ ScopedEvs("on_success") = {}
       /\ op.u.k \in {"ret", "raise"} /\ Given("on_finalize")
          => /\ OnceWith("on_finalize", <<>>)
             /\ \A i \in ScopedEvs("on_finalize") :
                   \A j \in ScopedEvs("on_success") \cup ScopedEvs("on_error") :
                      j < i

\* the error that the block of the with-statement raised
BlockError == log[CHOOSE i \in ScopedEvs("unit") : log[i].raised].err

\* the block raised and its error was handled: no error observer is
\* registered, or the error observer was invoked and returned normally
BlockErrorHandled ==
    /\ ContextCall
    /\ \E i \in ScopedEvs("unit") : log[i].raised
    /\ \/ ~cat[OUTER].on_error.reg
       \/ \E i \in ScopedEvs("on_error") : log[i].ran /\ ~log[i].raised

(***************************************************************************)
(* C27: when the block of a secure_context with-statement raises an error  *)
(* and the error observer returns normally, or none is registered, that    *)
(* error does not leave the with-statement; unless the finalize observer   *)
(* raises, nothing is raised and execution continues after the block.      *)
(***************************************************************************)
C27_ScopedContainment ==
    BlockErrorHandled
    => /\ outcome.k = "raise" => outcome.error # BlockError
       /\ (\A i \in ScopedEvs("on_finalize") : ~log[i].raised)
             => outcome.k = "ret"

\* a raising block whose error observer returned normally, left normally
C27_Witness ==
    /\ BlockErrorHandled
    /\ \E i \in ScopedEvs("on_error") :
          log[i].ran /\ ~log[i].raised /\ log[i].args = <<BlockError>>
    /\ outcome.k = "ret"

(***************************************************************************)
(* C28: when the block of a secure_context with-statement completes        *)
(* normally and the registered success observer expects a value, the code  *)
(* around the with-statement receives a configuration error (a ValueError  *)
(* by the docstring of secure_context; the TypeError of the Callback is    *)
(* accepted here as well): the with-statement does not end normally.       *)
(***************************************************************************)
C28_ScopedConfigurationError ==
    (/\ ContextCall /\ op.u.k = "ret"
     /\ Given("on_success") /\ cat[OUTER].on_success.cb.callback.arity = 1)
    => /\ outcome.k = "raise"
       /\ heap[ErrIdx(outcome.error)].kind \in {"ValueError", "TypeError"}

\* a call of a function wrapped by decorator has ended
WrapperCall == pc = "done" /\ op.name \in {"wrapper", "async_wrapper"}

\* the slot of the Catcher that a field of the summary reports
SlotOf == [success |-> "on_success", error |-> "on_error",
           finalize |-> "on_finalize"]

\* the summary s reports the dispatches of execution 1 to the slot of field f
Reports(s, f) ==
    /\ s.callback_result_types[f] = "skipped" <=> Evs(1, SlotOf[f]) = {}
    /\ s.callback_result_types[f] = "success"
          <=> /\ Evs(1, SlotOf[f]) # {}
              /\ \A i \in Evs(1, SlotOf[f]) : log[i].ran /\ ~log[i].raised
    /\ s.callback_result_types[f] = "error"
          <=> \E i \in Evs(1, SlotOf[f]) : log[i].raised
    /\ \A i \in Evs(1, SlotOf[f]) :
          log[i].ran /\ ~log[i].raised
             => s.callback_return_values[f] = log[i].res
    /\ s.callback_result_types[f] # "success"
          => s.callback_return_values[f] = UNSET

(***************************************************************************)
(* C29: the Catcher execution of a call of a function wrapped by decorator *)
(* produces exactly one CallbackSummary; it marks each slot SKIPPED        *)
(* exactly when the observer of the slot was not dispatched in that        *)
(* execution, SUCCESS exactly when it was invoked and returned, ERROR      *)
(* exactly when its dispatch raised, and it records the return value of an *)
(* observer that returned and UNSET otherwise.                             *)
(***************************************************************************)
C29_CallbackSummary ==
    WrapperCall
    => /\ Len(outcome.summaries) = 1
       /\ \A f \in DOMAIN SlotOf : Reports(outcome.summaries[1], f)

(***************************************************************************)
(* What the trace shows of a stream.map.                                   *)
(***************************************************************************)
\* a stream.map that the caller configured as map allows has ended
StreamCall ==
    /\ pc = "done" /\ op.name = "map"
    /\ \/ op.plan = "plain function"
       \/ /\ op.plan = "secured function"
          /\ cat[OUTER].on_error_return_always = ERRORED

\* the source that map ran over
Source == [i \in 1..Len(op.u.sub) |-> ArgName[i]]

\* the function returns for the element / raises for it
ElementPasses(element) ==
    \E i \in 1..Len(op.u.sub) : ArgName[i] = element /\ op.u.sub[i].k = "echo"

ElementFails(element) ==
    \E i \in 1..Len(op.u.sub) : ArgName[i] = element /\ op.u.sub[i].k = "raise"

\* the calls of the function for the element
ElementCalls(element) ==
    {j \in 1..Len(log) : /\ log[j].slot = "unit" /\ log[j].cat = OUTER
                         /\ log[j].args = <<element>>}

\* the dispatches of the error that call j of the function raised
ErrorDispatchesOf(j) ==
    {d \in 1..Len(log) : /\ log[d].slot = "on_error" /\ log[d].cat = OUTER
                         /\ log[d].ran /\ log[d].args = <<log[j].err, log[j].args[1]>>}

(***************************************************************************)
(* C30: stream.map with observers that return normally (or are not given)  *)
(* calls the function once for every element of the source and yields     *)
(* exactly the results of the elements for which the function returned, in *)
(* the order of the source; the error of every other element is            *)
(* dispatched to the error observer exactly once.                          *)
(***************************************************************************)
C30_StreamMapDiscardsFailures ==
    (/\ StreamCall
     /\ \A slot \in {"on_success", "on_error", "on_finalize"} :
           Given(slot) => Benign(slot))
    => /\ outcome.k = "ret"
       /\ outcome.elements = SelectSeq(Source, ElementPasses)
       /\ \A i \in 1..Len(Source) : Cardinality(ElementCalls(Source[i])) = 1
       /\ \A i \in 1..Len(Source) :
             (ElementFails(Source[i]) /\ Given("on_error"))
                => \A j \in ElementCalls(Source[i]) :
                      Cardinality(ErrorDispatchesOf(j)) = 1

\* a stream.map that was given an already secured function has ended
SecuredStreamCall ==
    /\ pc = "done" /\ op.name = "map"
    /\ op.plan \in {"secured function", "secured function and observers"}

\* map raised ValueError before it called the function
Rejected ==
    /\ outcome.k = "raise"
    /\ heap[ErrIdx(outcome.error)].kind = "ValueError"
    /\ log = <<>>

\* the dispatches of the returned element to the success observer
SuccessDispatchesOf(element) ==
    {d \in 1..Len(log) : /\ log[d].slot = "on_success" /\ log[d].cat = OUTER
                         /\ log[d].ran /\ log[d].args = <<element, element>>}

(***************************************************************************)
(* C31: stream.map of a function that decorator secured before, without    *)
(* wrap_secured_function, raises ValueError if the Catcher of the function *)
(* does not return ERRORED on an error, and raises ValueError if the       *)
(* caller passes observers; otherwise it calls the function as it is:      *)
(* every element is run once, by the Catcher of the function only, and     *)
(* dispatched exactly once to its success observer (the function returned) *)
(* or to its error observer (the function raised), and the stream ends     *)
(* normally.  (Stated for observers that return normally or were not       *)
(* given to decorator.)                                                    *)
(***************************************************************************)
C31_SecuredFunctionAsIs ==
    SecuredStreamCall
    => /\ cat[OUTER].on_error_return_always # ERRORED => Rejected
       /\ op.plan = "secured function and observers" => Rejected
       /\ (/\ cat[OUTER].on_error_return_always = ERRORED
           /\ op.plan = "secured function"
           /\ \A slot \in {"on_success", "on_error", "on_finalize"} :
                 Given(slot) => Benign(slot))
          => /\ outcome.k = "ret"
             /\ \A d \in 1..Len(log) : log[d].cat = OUTER
             /\ \A i \in 1..Len(Source) :
                   /\ Cardinality(ElementCalls(Source[i])) = 1
                   /\ (ElementPasses(Source[i]) /\ Given("on_success"))
                         => Cardinality(SuccessDispatchesOf(Source[i])) = 1
                   /\ (ElementFails(Source[i]) /\ Given("on_error"))
                         => \A j \in ElementCalls(Source[i]) :
                               Cardinality(ErrorDispatchesOf(j)) = 1

\* the first attempt of the call raises an error that already carries a
\* handled-mark
FirstAttemptMarked == RetryCall /\ Fails >= 1 /\ op.u.sub[1].k = "nested"

\* the decisions between the j-th call of the unit of work and the next
DecisionsOfAttempt(j) ==
    {d \in Decisions : /\ Nth(UnitCalls, j) < d
                       /\ \A i \in UnitCalls : Nth(UnitCalls, j) < i => d < i}

(***************************************************************************)
(* C32: one call of a function decorated by retry_on_error calls the unit  *)
(* of work at most max_retries times; the j-th decision is given the       *)
(* attempt index j-1; and every call of the unit of work but the first     *)
(* follows a failed call and a decision on it.                             *)
(***************************************************************************)
C32_AttemptBound ==
    RetryCall
    => /\ Cardinality(UnitCalls) <= deco.max_retries
       /\ \A j \in 1..Cardinality(Decisions) :
             log[Nth(Decisions, j)].args[2] = AttemptCount(j - 1)
       /\ \A j \in 2..Cardinality(UnitCalls) :
             /\ log[Nth(UnitCalls, j - 1)].raised
             /\ DecisionsOfAttempt(j - 1) # {}

(***************************************************************************)
(* C33: when the first attempt of a call (max_retries >= 1) raises an      *)
(* error that already carries a handled-mark, the decision callback is     *)
(* still invoked for that attempt, exactly once and with that error.       *)
(***************************************************************************)
C33_DecisionForMarkedError ==
    (FirstAttemptMarked /\ deco.max_retries >= 1)
    => /\ UnitCalls # {}
       /\ Cardinality(DecisionsOfAttempt(1)) = 1
       /\ \A d \in DecisionsOfAttempt(1) :
             log[d].ran /\ log[d].args[1] = log[Nth(UnitCalls, 1)].err

(***************************************************************************)
(* C34: a call of a Callback with positional injections, recorded in any   *)
(* order, passes to the wrapped function an argument list in which each    *)
(* injected value stands at its index, the caller's positional arguments   *)
(* keep their relative order, and every named injection replaces the       *)
(* caller's keyword argument of the same name; the call leaves the         *)
(* Callback's injection maps as they were.                                 *)
(***************************************************************************)
\* the function of the Callback cb received (trace entry `received`) the
\* caller's args and kwargs with the injections of cb in their places
InjectedAsRecorded(cb, received, args, kwargs) ==
    /\ received.ran
    /\ \A j \in 1..Len(cb.args_to_inject) :
          /\ cb.args_to_inject[j][1] + 1 <= Len(received.args)
          /\ received.args[cb.args_to_inject[j][1] + 1] = cb.args_to_inject[j][2]
    /\ SelectSeq(received.args,
                 LAMBDA x : \E i \in 1..Len(args) : args[i] = x) = args
    /\ cb.kwargs_to_inject \subseteq received.kwargs
    /\ \A p \in received.kwargs :
          \/ p \in cb.kwargs_to_inject
          \/ p \in kwargs /\ \A q \in cb.kwargs_to_inject : q[1] # p[1]
    /\ \A p \in kwargs : \E q \in received.kwargs : q[1] = p[1]

C34_InjectionPositions ==
    [][(pc = "ready" /\ pc' = "done" /\ op'.name = "Callback.__call__")
       => /\ cat' = cat
          /\ InjectedAsRecorded(cat[OUTER].on_finalize.cb, log'[Len(log')],
                                op'.args, op'.kwargs)]_vars

\* what does hold: the same when the injections were recorded by increasing
\* index and every index is a position of the list built so far
C34_AscendingInjection ==
    [][(/\ pc = "ready" /\ pc' = "done" /\ op'.name = "Callback.__call__"
        /\ LET items == cat[OUTER].on_finalize.cb.args_to_inject
           IN \A j \in 1..Len(items) :
                 /\ j > 1 => items[j - 1][1] < items[j][1]
                 /\ items[j][1] <= Len(op'.args) + j - 1)
       => /\ cat' = cat
          /\ InjectedAsRecorded(cat[OUTER].on_finalize.cb, log'[Len(log')],
                                op'.args, op'.kwargs)]_vars

(***************************************************************************)
(* C35: after any number of executions of one Catcher every observer's     *)
(* expected contract has unique parameter names and exactly one implicit   *)
(* leading parameter (error for the error observer, result for the success *)
(* observer); the auto-set step of an execution accumulates no parameter   *)
(* and does not fail, on the first execution or on a later one.            *)
(***************************************************************************)
CatcherCall ==
    /\ pc = "done"
    /\ op.name \in {"secure_call", "secure_call_coroutine", "secure_await",
                    "secure_context", "wrapper", "async_wrapper"}

Expected(slot) == cat[OUTER][slot].cb.expected_signature

\* the call ended with a ValueError that neither the unit of work nor an
\* observer raised, of a unit of work whose signature can be inspected: the
\* ValueError of an auto-set step
AutoSetFailed ==
    /\ CatcherCall
    /\ op.u.hasSig
    /\ outcome.k = "raise"
    /\ heap[ErrIdx(outcome.error)].kind = "ValueError"
    /\ \A i \in 1..Len(log) : log[i].err # outcome.error

C35_ContractStability ==
    /\ \A slot \in {"on_success", "on_error", "on_finalize"} :
          ~HasDuplicate(Expected(slot))
    /\ (CatcherCall /\ op.auto /\ Given("on_error") /\ Evs(1, "on_error") # {})
          => (Expected("on_error") # <<>> /\ Head(Expected("on_error")) = "error")
    /\ (CatcherCall /\ op.auto /\ Given("on_success")
          /\ op.name # "secure_context" /\ Evs(1, "on_success") # {})
          => (Expected("on_success") # <<>>
                 /\ Head(Expected("on_success")) = "result")
    /\ ~AutoSetFailed

(***************************************************************************)
(* C36: an observer that decorator(...) was not given (None) counts as not *)
(* registered: a call of the wrapped function never tries to dispatch it,  *)
(* and what the call returns or raises and which observers ran is what a   *)
(* Catcher with only the given observers would produce.  For one,          *)
(* decorator(on_error=f) on a function that returns V returns V.           *)
(***************************************************************************)
\* the Catcher with the slots of the observers that were not given empty,
\* as Catcher.__init__ leaves the slot of an observer that is None
OnlyGiven(catcher) ==
    [slot \in DOMAIN catcher |->
        IF slot \in {"on_success", "on_error", "on_finalize"}
        THEN IF catcher[slot].cb.callback.none THEN NoSlot ELSE catcher[slot]
        ELSE catcher[slot]]

\* what the caller of the wrapped function sees of the result r, and the
\* observers that ran, in order
Visible(r) ==
    LET evs == SelectSeq(r.w.log, LAMBDA ev : ev.slot # "unit" /\ ev.ran)
    IN [k |-> r.k, t |-> r.t, result |-> r.result,
        error |-> IF r.k = "raise" THEN Exc(r.w, r.error).kind ELSE None,
        ran |-> [i \in 1..Len(evs) |-> <<evs[i].exec, evs[i].cat, evs[i].slot,
                                         evs[i].args, evs[i].raised>>]]

\* the call of the wrapped function u with a Catcher of the given observers
WithOnlyGiven(name, u, args) ==
    LET w == [World EXCEPT !.cat[OUTER] = OnlyGiven(@)]
    IN IF name = "wrapper" THEN wrapper(w, OUTER, u, args)
       ELSE async_wrapper(w, OUTER, u, args)

C36_UnsetObserversNotRegistered ==
    [][(pc = "ready" /\ WrapperCall')
       => /\ \A i \in 1..Len(log') :
                log'[i].cat = OUTER /\ log'[i].slot # "unit"
                   => ~cat[OUTER][log'[i].slot].cb.callback.none
          /\ Visible([w |-> [heap |-> heap', log |-> log'], k |-> outcome'.k,
                      t |-> outcome'.t, result |-> outcome'.result,
                      error |-> outcome'.error])
                = Visible(WithOnlyGiven(op'.name, op'.u, op'.args))]_vars

\* what does hold: the same for a decoration that was given all three
\* observers
C36_AllGiven ==
    [][(pc = "ready" /\ WrapperCall' /\ cat[OUTER] = OnlyGiven(cat[OUTER]))
       => Visible([w |-> [heap |-> heap', log |-> log'], k |-> outcome'.k,
                   t |-> outcome'.t, result |-> outcome'.result,
                   error |-> outcome'.error])
             = Visible(WithOnlyGiven(op'.name, op'.u, op'.args))]_vars

(***************************************************************************)
(* C37: the handled-mark of an error only grows: no entry is removed or    *)
(* reordered, every Catcher that dispatches the error to its error         *)
(* observer appends itself after the entries the mark had, and a Catcher   *)
(* that skips its error observer because of suppression does not append    *)
(* itself.                                                                 *)
(***************************************************************************)
\* the handled-mark that the error has when the call is over
MarkOf(E) == heap[ErrIdx(E)].marks

\* the handled-mark that E had when the try block of execution ex raised
\* it: the one the unit of work raised it with, and none when the error was
\* made in the try block after the unit of work (by the success observer or
\* by an auto-set step)
EntryMark(ex, E) ==
    IF \E i \in Evs(ex, "unit") : log[i].raised /\ log[i].err = E
    THEN log[CHOOSE i \in Evs(ex, "unit") : log[i].raised /\ log[i].err = E].marks
    ELSE <<>>

\* the call of the OUTER Catcher handled E: it returned a NegativeResult
\* with E
HandledByOuter(E) ==
    /\ pc = "done"
    /\ op.name \in {"secure_call", "secure_call_coroutine", "secure_await"}
    /\ outcome.t = "Neg" /\ outcome.error = E

\* the OUTER Catcher skipped its error observer because of suppression: the
\* error had a handled-mark when the unit of work raised it
SkippedBySuppression(E) ==
    /\ HandledByOuter(E)
    /\ cat[OUTER].on_error.reg /\ cat[OUTER].suppress_recalling_on_error
    /\ EntryMark(1, E) # <<>>
    /\ Evs(1, "on_error") = {}

\* the mark only grows, and a Catcher that dispatches appends itself
MarkGrows(E) ==
    /\ \A i \in 1..Len(log) :
          (log[i].slot = "unit" /\ log[i].raised /\ log[i].err = E)
             => /\ Len(log[i].marks) <= Len(MarkOf(E))
                /\ SubSeq(MarkOf(E), 1, Len(log[i].marks)) = log[i].marks
    /\ \A j \in 1..Len(log) :
          (log[j].slot = "on_error" /\ log[j].args # <<>> /\ log[j].args[1] = E)
             => /\ Len(EntryMark(log[j].exec, E)) < Len(MarkOf(E))
                /\ MarkOf(E)[Len(EntryMark(log[j].exec, E)) + 1] = log[j].cat
    /\ (HandledByOuter(E) /\ Evs(1, "on_error") # {})
          => MarkOf(E) = Append(EntryMark(1, E), OUTER)

C37_HandledMarkAppendOnly ==
    \A E \in Errors :
        /\ MarkGrows(E)
        /\ SkippedBySuppression(E) => MarkOf(E) = EntryMark(1, E)

\* what does hold: the Catcher that skips its error observer because of
\* suppression appends itself as well
C37_EveryCatcherAppends ==
    \A E \in Errors :
        /\ MarkGrows(E)
        /\ SkippedBySuppression(E) => MarkOf(E) = Append(EntryMark(1, E), OUTER)

\* an error with the handled-mark of the INNER Catcher reached the OUTER
\* Catcher, which skipped its error observer
C37_Witness ==
    \E E \in Errors :
        /\ SkippedBySuppression(E)
        /\ MarkOf(E) = <<INNER, OUTER>>

(***************************************************************************)
(* C38: the cause chains stay finite: attaching the error E of the unit of *)
(* work to the error E2 that the error observer raised never makes a cycle *)
(* of cause links, also when E2 already is in the cause chain of E (E was  *)
(* raised from E2, and the error observer raises E2 again) and when E      *)
(* already is in the chain of E2.                                          *)
(***************************************************************************)
C38_FiniteCauseChains ==
    \A k \in 1..Len(heap) : Len(CauseChain(ErrName[k])) <= Len(heap)

\* what does hold: the chains stay finite in every call but the one whose
\* error observer raises the cause of the error it was dispatched with
C38_FiniteUnlessRaisedCause ==
    ~(/\ pc = "done"
      /\ op.u.k = "raisefrom"
      /\ cat[OUTER].on_error.cb.callback.beh = "raisecause"
      /\ \E i \in Evs(1, "on_error") : log[i].ran /\ log[i].raised)
    => \A k \in 1..Len(heap) : Len(CauseChain(ErrName[k])) <= Len(heap)

(***************************************************************************)
(* C39: with max_retries = 0 the unit of work is never called and the      *)
(* decision callback never consulted; the wrapped call raises the          *)
(* too-many-retries RuntimeError with the attempt count 0, and the fail    *)
(* observer and the finalize observer of the retry sequence each run       *)
(* exactly once.                                                           *)
(***************************************************************************)
C39_ZeroAttempts ==
    (RetryCall /\ deco.max_retries = 0)
    => /\ UnitCalls = {} /\ Decisions = {}
       /\ outcome.k = "raise"
       /\ heap[ErrIdx(outcome.error)].kind = "RuntimeError"
       /\ deco.observers
             => /\ Cardinality(Overall("on_error")) = 1
                /\ \A i \in Overall("on_error") :
                      /\ log[i].ran
                      /\ log[i].args = <<outcome.error, AttemptCount(0)>> \o op.args
                /\ Cardinality(Overall("on_finalize")) = 1
                /\ \A i \in Overall("on_finalize") : log[i].ran
                /\ Overall("on_success") = {}

====
